---- MODULE Spec2Model ----
(***************************************************************************)
(* Model of the study planner's session store and of its due-reminder      *)
(* sweep (app.py).  The store is the sessions and subjects tables; every   *)
(* store call of the code opens its own connection and commits on its own  *)
(* (query / execute / execute_many), so one store call is one atomic step  *)
(* and a request is a sequence of such steps that other requests may       *)
(* interleave with.                                                        *)
(*                                                                         *)
(* Instants are seconds since 00:00:00 of calendar day 0.  The calendar    *)
(* days of the model are day 0 (2026-11-02) and day 1 (2026-11-03).        *)
(***************************************************************************)
EXTENDS Integers, Sequences, FiniteSets, TLC

VARIABLES
    bot_token,         \* TELEGRAM_BOT_TOKEN is set (truthy)
    chat_id,           \* TELEGRAM_CHAT_ID is set (truthy)
    clock,             \* the wall clock, datetime.now()
    sessions,          \* the sessions table: id -> row
    nextSessionId,     \* AUTOINCREMENT / SERIAL counter of sessions.id
    subjects,          \* the subjects table: id -> row
    nextSubjectId,     \* AUTOINCREMENT / SERIAL counter of subjects.id
    req,               \* the dashboard requests in flight, with the sweep's locals
    dispatched,        \* history: reminder dispatch attempts per session id
    failed,            \* history: session ids with a reminder dispatch that failed
    completedMarks,    \* history: ids in to_mark of sweeps that returned normally
    outcome            \* history: how the latest sweep to end has ended

vars == <<bot_token, chat_id, clock, sessions, nextSessionId, subjects, nextSubjectId,
          req, dispatched, failed, completedMarks, outcome>>

----------------------------------------------------------------------------
(* Bounds of the model *)

MaxSessions == 2       \* rows ever inserted into sessions
MaxSubjects == 1       \* rows ever inserted into subjects
NumRequests == 2       \* dashboard requests that can be in flight together
MaxDispatch == 2       \* reminder dispatch attempts counted per session

(* Program constant *)

REMINDER_MINUTES == 30

Users == {1, 2}
Requests == 1..NumRequests
SessionIds == 1..MaxSessions
None == 0              \* SQL NULL / Python None for an integer column
ValueError == -1       \* the result of a parse that raises ValueError

----------------------------------------------------------------------------
(* Dates and times *)

At(d, h, m, s) == ((d * 24 + h) * 60 + m) * 60 + s

\* date.isoformat() of the calendar day of an instant
Isoformat(d) == IF d = 0 THEN "2026-11-02" ELSE "2026-11-03"

\* now.date()
DateOf(now) == now \div At(1, 0, 0, 0)

IsDigit(c) == c \in {"0", "1", "2", "3", "4", "5", "6", "7", "8", "9"}

DigitVal(c) ==
    CASE c = "0" -> 0 [] c = "1" -> 1 [] c = "2" -> 2 [] c = "3" -> 3
      [] c = "4" -> 4 [] c = "5" -> 5 [] c = "6" -> 6 [] c = "7" -> 7
      [] c = "8" -> 8 [] c = "9" -> 9

\* %H of strptime is the pattern 2[0-3]|[0-1]\d|\d : the number of characters
\* of t it takes from position 1 (0: no match).
MatchHour(t) ==
    IF Len(t) >= 2 /\ t[1] = "2" /\ t[2] \in {"0", "1", "2", "3"} THEN 2
    ELSE IF Len(t) >= 2 /\ t[1] \in {"0", "1"} /\ IsDigit(t[2]) THEN 2
    ELSE IF Len(t) >= 1 /\ IsDigit(t[1]) THEN 1
    ELSE 0

\* %M of strptime is the pattern [0-5]\d|\d : the number of characters of t it
\* takes from position i (0: no match).
MatchMinute(t, i) ==
    IF Len(t) >= i + 1 /\ t[i] \in {"0", "1", "2", "3", "4", "5"} /\ IsDigit(t[i + 1]) THEN 2
    ELSE IF Len(t) >= i /\ IsDigit(t[i]) THEN 1
    ELSE 0

Number(t, i, n) ==
    IF n = 2 THEN 10 * DigitVal(t[i]) + DigitVal(t[i + 1]) ELSE DigitVal(t[i])

\* The "%H:%M" part of strptime on the time text t (a tuple of characters):
\* the minute of the day, or ValueError when the text does not match or has
\* characters left over ("unconverted data remains").
ParseTime(t) ==
    LET h == MatchHour(t) IN
    IF h = 0 \/ Len(t) < h + 1 \/ t[h + 1] # ":" THEN ValueError
    ELSE LET m == MatchMinute(t, h + 2) IN
         IF m = 0 \/ Len(t) # h + 1 + m THEN ValueError
         ELSE 60 * Number(t, 1, h) + Number(t, h + 2, m)

\* The "%Y-%m-%d" part of strptime on the date text: the calendar day.
ParseDate(d) ==
    IF d = "2026-11-02" THEN 0
    ELSE IF d = "2026-11-03" THEN 1
    ELSE ValueError

\* datetime.strptime(f"{session_date} {session_time}", "%Y-%m-%d %H:%M")
Strptime(session_date, session_time) ==
    LET d == ParseDate(session_date)
        t == ParseTime(session_time)
    IN  IF d = ValueError \/ t = ValueError THEN ValueError
        ELSE At(d, 0, t, 0)

----------------------------------------------------------------------------
(* Texts of form fields and of file cells *)

\* int(text) of a decimal text (a tuple of characters) with an optional sign:
\* [ok |-> TRUE, value |-> n], or ok = FALSE when int() raises ValueError.
RECURSIVE DigitsValue(_, _, _)
DigitsValue(t, i, acc) ==
    IF i > Len(t) THEN acc ELSE DigitsValue(t, i + 1, 10 * acc + DigitVal(t[i]))

ParseInt(t) ==
    LET neg == Len(t) >= 1 /\ t[1] = "-"
        first == IF neg THEN 2 ELSE 1
    IN  IF Len(t) < first \/ \E i \in first..Len(t) : ~IsDigit(t[i])
        THEN [ok |-> FALSE, value |-> 0]
        ELSE [ok |-> TRUE,
              value |-> IF neg THEN 0 - DigitsValue(t, first, 0)
                        ELSE DigitsValue(t, first, 0)]

Max(a, b) == IF a >= b THEN a ELSE b

----------------------------------------------------------------------------
(* The store: one operator per SQL statement of the code *)

Store == [sessions |-> sessions, nextSessionId |-> nextSessionId,
          subjects |-> subjects, nextSubjectId |-> nextSubjectId]

\* INSERT INTO sessions (...): the id is the next value of the counter, the
\* columns the statement does not name take their DEFAULT 0.
InsertSession(st, user_id, subject_id, session_date, session_time, duration_min, completed) ==
    LET id == st.nextSessionId IN
    [st EXCEPT
       !.sessions = [i \in DOMAIN st.sessions \cup {id} |->
                       IF i = id
                       THEN [user_id |-> user_id, subject_id |-> subject_id,
                             session_date |-> session_date,
                             session_time |-> session_time,
                             duration_min |-> duration_min,
                             completed |-> completed, reminder_sent |-> 0]
                       ELSE st.sessions[i]],
       !.nextSessionId = id + 1]

\* INSERT INTO subjects (user_id, name, color)
InsertSubject(st, user_id, name) ==
    LET id == st.nextSubjectId IN
    [st EXCEPT
       !.subjects = [i \in DOMAIN st.subjects \cup {id} |->
                       IF i = id THEN [user_id |-> user_id, name |-> name]
                       ELSE st.subjects[i]],
       !.nextSubjectId = id + 1]

\* SELECT id FROM subjects WHERE user_id = ? AND name = ?  (fetch one):
\* the id of a matching row, None when there is none.
SubjectIdByName(st, user_id, name) ==
    LET found == {i \in DOMAIN st.subjects :
                    st.subjects[i].user_id = user_id /\ st.subjects[i].name = name}
    IN  IF found = {} THEN None
        ELSE CHOOSE i \in found : \A j \in found : i <= j

HistoryUnchanged ==
    UNCHANGED <<dispatched, failed, completedMarks, outcome>>

SetStore(st) ==
    /\ sessions' = st.sessions
    /\ nextSessionId' = st.nextSessionId
    /\ subjects' = st.subjects
    /\ nextSubjectId' = st.nextSubjectId

----------------------------------------------------------------------------
(* Requests that change the store *)

\* POST /sessions/create.  The form fields are texts; the new-session message
\* the handler sends afterwards is no reminder and changes no state.
CreateSession(user_id, subject_id, session_date, session_time, duration_min) ==
    /\ nextSessionId <= MaxSessions
    /\ IF session_date = "" \/ session_time = <<>> \/ duration_min = <<>>
          \/ ~ParseInt(duration_min).ok
       THEN UNCHANGED <<sessions, nextSessionId, subjects, nextSubjectId>>
       ELSE LET minutes == Max(10, ParseInt(duration_min).value)
                subject_value == IF subject_id = <<>> \/ ~ParseInt(subject_id).ok
                                 THEN None ELSE ParseInt(subject_id).value
            IN  SetStore(InsertSession(Store, user_id, subject_value, session_date,
                                       session_time, minutes, 0))
    /\ UNCHANGED <<bot_token, chat_id, clock, req>>
    /\ HistoryUnchanged

\* Faulty variant: un-completing a session also re-opens it for reminders
ToggleSession_Reopens(user_id, session_id) ==
    /\ sessions' = [i \in DOMAIN sessions |->
                      IF i = session_id /\ sessions[i].user_id = user_id
                      THEN [sessions[i] EXCEPT
                              !.completed = IF sessions[i].completed = 1 THEN 0 ELSE 1,
                              !.reminder_sent = IF sessions[i].completed = 1 THEN 0
                                                ELSE sessions[i].reminder_sent]
                      ELSE sessions[i]]
    /\ UNCHANGED <<bot_token, chat_id, clock, nextSessionId, subjects, nextSubjectId, req>>
    /\ UNCHANGED <<dispatched, failed, completedMarks, outcome>>

\* POST /sessions/<id>/toggle
ToggleSession(user_id, session_id) ==
    /\ sessions' = [i \in DOMAIN sessions |->
                      IF i = session_id /\ sessions[i].user_id = user_id
                      THEN [sessions[i] EXCEPT
                              !.completed = IF sessions[i].completed = 1 THEN 0 ELSE 1]
                      ELSE sessions[i]]
    /\ UNCHANGED <<bot_token, chat_id, clock, nextSessionId, subjects, nextSubjectId, req>>
    /\ HistoryUnchanged

\* POST /sessions/<id>/delete.  The ids of deleted rows are never given to
\* another row, and the history of a deleted session goes with it.
DeleteSession(user_id, session_id) ==
    LET kept == {j \in DOMAIN sessions :
                   ~(j = session_id /\ sessions[j].user_id = user_id)}
    IN  /\ sessions' = [i \in kept |-> sessions[i]]
        /\ dispatched' = [i \in SessionIds |-> IF i \in kept THEN dispatched[i] ELSE 0]
        /\ failed' = failed \cap kept
        /\ completedMarks' = completedMarks \cap kept
        /\ UNCHANGED <<bot_token, chat_id, clock, nextSessionId, subjects, nextSubjectId, req,
                       outcome>>

\* POST /subjects/create
CreateSubject(user_id, name) ==
    /\ nextSubjectId <= MaxSubjects
    /\ IF name = ""
       THEN UNCHANGED <<sessions, nextSessionId, subjects, nextSubjectId>>
       ELSE SetStore(InsertSubject(Store, user_id, name))
    /\ UNCHANGED <<bot_token, chat_id, clock, req>>
    /\ HistoryUnchanged

\* POST /subjects/<id>/delete: the UPDATE, then the DELETE
DeleteSubject(user_id, subject_id) ==
    /\ sessions' = [i \in DOMAIN sessions |->
                      IF sessions[i].subject_id = subject_id
                         /\ sessions[i].user_id = user_id
                      THEN [sessions[i] EXCEPT !.subject_id = None]
                      ELSE sessions[i]]
    /\ subjects' = [i \in {j \in DOMAIN subjects :
                             ~(j = subject_id /\ subjects[j].user_id = user_id)}
                      |-> subjects[i]]
    /\ UNCHANGED <<bot_token, chat_id, clock, nextSessionId, nextSubjectId, req>>
    /\ HistoryUnchanged

\* One item of an import, after its fields were read: the subject is looked up
\* by name and inserted when the user has none of that name, then the session
\* is inserted with the duration and the completed flag of the file.
ImportItem(st, user_id, item, duration_min, completed) ==
    LET st1 == IF item.subject = "" \/ SubjectIdByName(st, user_id, item.subject) # None
               THEN st ELSE InsertSubject(st, user_id, item.subject)
        subject_id == IF item.subject = "" THEN None
                      ELSE SubjectIdByName(st1, user_id, item.subject)
    IN  InsertSession(st1, user_id, subject_id, item.date, item.time,
                      duration_min, completed)

\* POST /import/json: the loop over the items.  int() of a duration that is
\* no number raises and ends the request with the items before it imported.
RECURSIVE ImportJsonItems(_, _, _, _)
ImportJsonItems(st, user_id, data, i) ==
    IF i > Len(data) THEN st
    ELSE LET item == data[i]
             duration_min == ParseInt(item.duration_min)
         IN  IF ~duration_min.ok THEN st
             ELSE ImportJsonItems(
                    ImportItem(st, user_id, item, duration_min.value,
                               IF item.completed THEN 1 ELSE 0),
                    user_id, data, i + 1)

\* POST /import/csv: the loop over the rows.  An empty duration cell reads as
\* 30 and an empty completed cell as 0; a row with an empty date or time is
\* skipped after its numbers were read.
RECURSIVE ImportCsvRows(_, _, _, _)
ImportCsvRows(st, user_id, reader, i) ==
    IF i > Len(reader) THEN st
    ELSE LET row == reader[i]
             duration_min == IF row.duration_min = <<>> THEN [ok |-> TRUE, value |-> 30]
                             ELSE ParseInt(row.duration_min)
             completed == IF row.completed = <<>> THEN [ok |-> TRUE, value |-> 0]
                          ELSE ParseInt(row.completed)
         IN  IF ~duration_min.ok \/ ~completed.ok THEN st
             ELSE IF row.date = "" \/ row.time = <<>>
                  THEN ImportCsvRows(st, user_id, reader, i + 1)
                  ELSE ImportCsvRows(
                         ImportItem(st, user_id, row, duration_min.value, completed.value),
                         user_id, reader, i + 1)

Fits(st) ==
    /\ st.nextSessionId <= MaxSessions + 1
    /\ st.nextSubjectId <= MaxSubjects + 1

ImportJson(user_id, data) ==
    /\ Fits(ImportJsonItems(Store, user_id, data, 1))
    /\ SetStore(ImportJsonItems(Store, user_id, data, 1))
    /\ UNCHANGED <<bot_token, chat_id, clock, req>>
    /\ HistoryUnchanged

ImportCsv(user_id, reader) ==
    /\ Fits(ImportCsvRows(Store, user_id, reader, 1))
    /\ SetStore(ImportCsvRows(Store, user_id, reader, 1))
    /\ UNCHANGED <<bot_token, chat_id, clock, req>>
    /\ HistoryUnchanged

----------------------------------------------------------------------------
(* The reminder sweep, send_due_reminders, run by GET /dashboard *)

RECURSIVE Ascending(_)
Ascending(S) ==
    IF S = {} THEN <<>>
    ELSE LET m == CHOOSE i \in S : \A j \in S : i <= j
         IN  <<m>> \o Ascending(S \ {m})

\* Faulty variants: the WHERE clause without one of its conditions
IsCandidate_IgnoresSent(row, user_id, today) ==
    /\ row.user_id = user_id
    /\ row.session_date = today
    /\ row.completed = 0

IsCandidate_IgnoresCompleted(row, user_id, today) ==
    /\ row.user_id = user_id
    /\ row.session_date = today
    /\ row.reminder_sent = 0

IsCandidate_AnyDay(row, user_id, today) ==
    /\ row.user_id = user_id
    /\ row.completed = 0
    /\ row.reminder_sent = 0

\* The WHERE clause of the candidate query
IsCandidate(row, user_id, today) ==
    /\ row.user_id = user_id
    /\ row.session_date = today
    /\ row.completed = 0
    /\ row.reminder_sent = 0

\* SELECT id, title, session_date, session_time, duration_min FROM sessions
\* WHERE ...  (fetch all), the rows in the order of their ids.
QueryCandidates(user_id, today) ==
    LET ids == Ascending({i \in DOMAIN sessions : IsCandidate(sessions[i], user_id, today)})
    IN  [k \in 1..Len(ids) |->
           [id |-> ids[k],
            session_date |-> sessions[ids[k]].session_date,
            session_time |-> sessions[ids[k]].session_time,
            duration_min |-> sessions[ids[k]].duration_min]]

\* Faulty variant: the window without its end: now <= session_dt < window_end
InWindow_Exclusive(now, session_dt) ==
    /\ now <= session_dt
    /\ session_dt < now + REMINDER_MINUTES * 60

\* now <= session_dt <= window_end
InWindow(now, session_dt) ==
    /\ now <= session_dt
    /\ session_dt <= now + REMINDER_MINUTES * 60

\* Faulty variant: a row whose time does not parse is not skipped
IsDue_UnparsedIsDue(row, now) ==
    LET session_dt == Strptime(row.session_date, row.session_time)
    IN  IF session_dt = ValueError THEN TRUE
        ELSE InWindow(now, session_dt)

\* The body of the for loop for one row: the row is due, so a reminder is
\* dispatched for it and its id appended to to_mark.
IsDue(row, now) ==
    LET session_dt == Strptime(row.session_date, row.session_time)
    IN  IF session_dt = ValueError THEN FALSE     \* except ValueError: continue
        ELSE InWindow(now, session_dt)

\* The for loop: to_mark after the rows from position k on
RECURSIVE ToMark(_, _, _, _)
ToMark(rows, now, k, to_mark) ==
    IF k > Len(rows) THEN to_mark
    ELSE ToMark(rows, now, k + 1,
                IF IsDue(rows[k], now) THEN Append(to_mark, rows[k].id) ELSE to_mark)

Range(seq) == {seq[k] : k \in 1..Len(seq)}

\* Faulty variant: only the sessions whose dispatch went through are marked
MarkSent_OnlyDelivered(to_mark) ==
    [i \in DOMAIN sessions |->
       IF i \in Range(to_mark) /\ i \notin failed
       THEN [sessions[i] EXCEPT !.reminder_sent = 1]
       ELSE sessions[i]]

\* Faulty variant: the update has no WHERE and marks every stored session
MarkSent_WholeStore(to_mark) ==
    [i \in DOMAIN sessions |-> [sessions[i] EXCEPT !.reminder_sent = 1]]

\* UPDATE sessions SET reminder_sent = 1 WHERE id = ?  for every id of to_mark
MarkSent(to_mark) ==
    [i \in DOMAIN sessions |->
       IF i \in Range(to_mark) THEN [sessions[i] EXCEPT !.reminder_sent = 1]
       ELSE sessions[i]]

IdleRequest == [pc |-> "idle", user_id |-> None, to_mark |-> <<>>]

\* Faulty variant: the test looks at the token alone
SweepConfigured_TokenOnly == bot_token

\* if not TELEGRAM_BOT_TOKEN or not TELEGRAM_CHAT_ID: return
\* (the test that opens send_due_reminders)
SweepConfigured == bot_token /\ chat_id

\* Faulty variant: the loop collects the ids and sends nothing
Dispatch_Skipped(to_mark) == dispatched

\* Faulty variant: a session that was already sent for is not sent for again
Dispatch_OncePerSession(to_mark) ==
    [i \in SessionIds |->
       IF i \in Range(to_mark) /\ bot_token /\ chat_id /\ dispatched[i] = 0
       THEN 1 ELSE dispatched[i]]

\* send_telegram_message for every id of to_mark: the function returns at
\* once when the channel is not configured, else it attempts the call.
Dispatch(to_mark) ==
    [i \in SessionIds |->
       IF i \in Range(to_mark) /\ bot_token /\ chat_id
       THEN dispatched[i] + 1 ELSE dispatched[i]]

\* GET /dashboard enters send_due_reminders: the configuration test, the clock
\* read, the candidate query and the for loop over its rows, with one dispatch
\* for every due row, each of which may fail (send_telegram_message swallows
\* the failure).  The query is the only store call of this part and the loop
\* works on the rows it returned, so the part is one step; the request then
\* holds to_mark.  The query may raise (the store is locked or unreachable):
\* nothing catches it and the request fails.
SweepRead(p, user_id) ==
    /\ req[p].pc = "idle"
    /\ IF ~SweepConfigured
       THEN /\ outcome' = "skipped"
            /\ UNCHANGED <<req, dispatched, failed>>
       ELSE \/ LET now == clock
                   today == Isoformat(DateOf(now))
                   rows == QueryCandidates(user_id, today)
                   to_mark == ToMark(rows, now, 1, <<>>)
               IN  /\ \A i \in Range(to_mark) : dispatched[i] < MaxDispatch
                   /\ dispatched' = Dispatch(to_mark)
                   /\ \E lost \in SUBSET Range(to_mark) : failed' = failed \cup lost
                   /\ req' = [req EXCEPT ![p] = [pc |-> "mark", user_id |-> user_id,
                                                 to_mark |-> to_mark]]
                   /\ UNCHANGED outcome
            \/ /\ outcome' = "raised"
               /\ UNCHANGED <<req, dispatched, failed>>
    /\ UNCHANGED <<bot_token, chat_id, clock, sessions, nextSessionId, subjects,
                   nextSubjectId, completedMarks>>

\* if to_mark: execute_many(...), then the return to dashboard, which renders
\* the page.  execute_many commits all the updates or, when it raises, none;
\* nothing catches what it raises.
SweepMark(p) ==
    /\ req[p].pc = "mark"
    /\ IF req[p].to_mark = <<>>
       THEN /\ outcome' = "returned"
            /\ UNCHANGED <<sessions, completedMarks>>
       ELSE \/ /\ sessions' = MarkSent(req[p].to_mark)
               /\ completedMarks' = completedMarks \cup (Range(req[p].to_mark) \cap DOMAIN sessions)
               /\ outcome' = "returned"
            \/ /\ outcome' = "raised"
               /\ UNCHANGED <<sessions, completedMarks>>
    /\ req' = [req EXCEPT ![p] = IdleRequest]
    /\ UNCHANGED <<bot_token, chat_id, clock, nextSessionId, subjects, nextSubjectId,
                   dispatched, failed>>

----------------------------------------------------------------------------
(* Inputs *)

T2340 == <<"2", "3", ":", "4", "0">>
T0005 == <<"0", "0", ":", "0", "5">>
T2340s == <<"2", "3", ":", "4", "0", ":", "0", "0">>   \* a time with seconds
N45 == <<"4", "5">>

\* The instants at which requests arrive.
NowValues ==
    { At(0, 23, 9, 0), At(0, 23, 10, 0), At(0, 23, 11, 0),
      At(0, 23, 40, 0), At(0, 23, 40, 1), At(1, 0, 0, 0) }

\* Forms posted to /sessions/create
SessionForms ==
    { [user_id |-> 1, subject_id |-> <<>>, session_date |-> Isoformat(0), session_time |-> T2340, duration_min |-> N45],
      [user_id |-> 2, subject_id |-> <<>>, session_date |-> Isoformat(1), session_time |-> T0005, duration_min |-> N45] }

\* Files posted to /import/json and /import/csv
JsonFiles ==
    { << [date |-> Isoformat(0), time |-> T2340, duration_min |-> N45, completed |-> TRUE, subject |-> ""] >> }

CsvFiles ==
    { << [date |-> Isoformat(0), time |-> T2340s, duration_min |-> N45, completed |-> <<>>, subject |-> ""] >> }

----------------------------------------------------------------------------
(* The system *)

Init ==
    /\ bot_token \in BOOLEAN
    /\ chat_id \in BOOLEAN
    /\ clock = At(0, 23, 9, 0)
    /\ sessions = [i \in {} |-> 0]
    /\ nextSessionId = 1
    /\ subjects = [i \in {} |-> 0]
    /\ nextSubjectId = 1
    /\ req = [p \in Requests |-> IdleRequest]
    /\ dispatched = [s \in SessionIds |-> 0]
    /\ failed = {}
    /\ completedMarks = {}
    /\ outcome = "none"

\* Time passes.
Tick ==
    /\ \E t \in NowValues : t > clock /\ clock' = t
    /\ UNCHANGED <<bot_token, chat_id, sessions, nextSessionId, subjects, nextSubjectId, req>>
    /\ HistoryUnchanged

Next ==
    \/ Tick
    \/ \E f \in SessionForms :
         CreateSession(f.user_id, f.subject_id, f.session_date, f.session_time, f.duration_min)
    \/ \E u \in Users, i \in SessionIds : ToggleSession(u, i)
    \/ \E u \in Users, i \in SessionIds : DeleteSession(u, i)
    \/ \E data \in JsonFiles : ImportJson(1, data)
    \/ \E reader \in CsvFiles : ImportCsv(1, reader)
    \/ \E p \in Requests, u \in Users : SweepRead(p, u)
    \/ \E p \in Requests : SweepMark(p)

Spec == Init /\ [][Next]_vars

----------------------------------------------------------------------------
(* The store requests one after another: every request that changes the    *)
(* store, with subjects, and the sweeps of one dashboard request at a time. *)

N5 == <<"5">>

StoreForms ==
    { [user_id |-> 1, subject_id |-> <<"1">>, session_date |-> Isoformat(0), session_time |-> T2340, duration_min |-> N45],
      [user_id |-> 2, subject_id |-> <<>>, session_date |-> Isoformat(0), session_time |-> T2340, duration_min |-> N5] }

StoreJsonFiles ==
    { << [date |-> Isoformat(0), time |-> T2340, duration_min |-> N5, completed |-> TRUE, subject |-> "math"] >> }

StoreCsvFiles ==
    { << [date |-> Isoformat(0), time |-> T2340, duration_min |-> <<>>, completed |-> <<"1">>, subject |-> ""] >> }

StoreNowValues == { At(0, 23, 9, 0), At(0, 23, 11, 0), At(0, 23, 40, 1) }

TickStore ==
    /\ \E t \in StoreNowValues : t > clock /\ clock' = t
    /\ UNCHANGED <<bot_token, chat_id, sessions, nextSessionId, subjects, nextSubjectId, req>>
    /\ HistoryUnchanged

NextStore ==
    \/ TickStore
    \/ \E f \in StoreForms :
         CreateSession(f.user_id, f.subject_id, f.session_date, f.session_time, f.duration_min)
    \/ \E u \in Users, i \in SessionIds : ToggleSession(u, i)
    \/ \E u \in Users, i \in SessionIds : DeleteSession(u, i)
    \/ \E u \in Users : CreateSubject(u, "math")
    \/ \E u \in Users, i \in 1..MaxSubjects : DeleteSubject(u, i)
    \/ \E u \in Users, data \in StoreJsonFiles : ImportJson(u, data)
    \/ \E reader \in StoreCsvFiles : ImportCsv(1, reader)
    \/ \E u \in Users : SweepRead(1, u)
    \/ SweepMark(1)

SpecStore == Init /\ [][NextStore]_vars

----------------------------------------------------------------------------
(* Properties *)

\* Steps of a sweep, as seen in the request's record
ReadStep(p) == req[p].pc = "idle" /\ req'[p].pc = "mark"
MarkStep(p) == req[p].pc = "mark" /\ req'[p].pc = "idle"
Commits(p) == MarkStep(p) /\ outcome' = "returned"

\* The expected start of the sessions the inputs create, written out by hand:
\* the instant, or -1 when the stored date and time name none.
ExpectedStart(i) ==
    LET d == IF sessions[i].session_date = "2026-11-02" THEN 0
             ELSE IF sessions[i].session_date = "2026-11-03" THEN 1 ELSE -1
        m == IF sessions[i].session_time = <<"2", "3", ":", "4", "0">> THEN 23 * 60 + 40
             ELSE IF sessions[i].session_time = <<"0", "0", ":", "0", "5">> THEN 5 ELSE -1
    IN  IF d = -1 \/ m = -1 THEN -1 ELSE d * 86400 + m * 60

\* The calendar date of the clock, written out by hand
ClockDate == IF clock < 86400 THEN "2026-11-02" ELSE "2026-11-03"

\* Session i is a candidate of a sweep for user u that reads the store now.
CandidateNow(i, u) ==
    /\ sessions[i].user_id = u
    /\ sessions[i].session_date = ClockDate
    /\ sessions[i].completed = 0
    /\ sessions[i].reminder_sent = 0

\* The start of session i lies in clock .. clock + 30 minutes.
DueNow(i) ==
    /\ ExpectedStart(i) # -1
    /\ clock <= ExpectedStart(i)
    /\ ExpectedStart(i) <= clock + 1800

Channel == bot_token /\ chat_id

\* C1 as claimed: in every reachable state each session whose reminder_sent is
\* set has had exactly one reminder dispatch attempted for it.
C1_ExactlyOnce ==
    \A i \in DOMAIN sessions :
        sessions[i].reminder_sent = 1 => dispatched[i] = 1

\* C1 as amended: in every reachable state each session whose reminder_sent is
\* set has had at least one reminder dispatch attempted for it.
C1_AtLeastOnce ==
    \A i \in DOMAIN sessions :
        sessions[i].reminder_sent = 1 => dispatched[i] >= 1

C1_Witness ==
    \E i \in DOMAIN sessions :
        sessions[i].reminder_sent = 1 /\ dispatched[i] = 1

\* C2: reminder_sent is a latch.  No step takes the flag of a session that
\* stays in the store from 1 back to 0, and no sweep selects a session whose
\* flag is 1, whatever its completed flag has gone through.
C2_Latch ==
    [][ /\ \A i \in DOMAIN sessions \cap DOMAIN sessions' :
              sessions[i].reminder_sent = 1 => sessions'[i].reminder_sent = 1
        /\ \A p \in Requests : ReadStep(p) =>
              \A i \in Range(req'[p].to_mark) : sessions[i].reminder_sent = 0 ]_vars

C2_Witness ==
    \E i \in DOMAIN sessions :
        /\ sessions[i].reminder_sent = 1
        /\ sessions[i].completed = 0
        /\ sessions[i].duration_min = 30        \* imported as completed
        /\ DueNow(i)
        /\ req[1].pc = "mark"
        /\ req[1].user_id = sessions[i].user_id
        /\ i \notin Range(req[1].to_mark)

\* C3: a sweep dispatches nothing for a session that a sweep which has
\* returned normally had in its to_mark, so a second run right after a first
\* sends nothing for the sessions of the first.
C3_Idempotent ==
    [][ \A i \in SessionIds :
            dispatched'[i] > dispatched[i] => i \notin completedMarks ]_vars

C3_Witness ==
    \E p \in Requests : \E i \in DOMAIN sessions :
        /\ i \in completedMarks
        /\ dispatched[i] = 1
        /\ sessions[i].completed = 0
        /\ DueNow(i)
        /\ sessions[i].session_date = ClockDate
        /\ clock = At(0, 23, 10, 0)
        /\ req[p].pc = "mark"
        /\ req[p].user_id = sessions[i].user_id
        /\ i \notin Range(req[p].to_mark)
        /\ \A q \in Requests \ {p} : req[q].pc = "idle"

\* C4: with the channel configured, a sweep that reads the store at the
\* instant of the clock selects a candidate with a start T (and dispatches for
\* it) exactly when clock <= T <= clock + 30 minutes; what it selects is what
\* its update marks.
C4_Window ==
    [][ \A p \in Requests :
          /\ ReadStep(p) =>
               \A i \in DOMAIN sessions :
                   CandidateNow(i, req'[p].user_id) /\ ExpectedStart(i) # -1
                   => /\ i \in Range(req'[p].to_mark) <=> DueNow(i)
                      /\ dispatched'[i] = dispatched[i] + 1 <=> DueNow(i)
          /\ Commits(p) =>
               \A i \in DOMAIN sessions :
                   sessions'[i].reminder_sent = 1
                   <=> (sessions[i].reminder_sent = 1 \/ i \in Range(req[p].to_mark)) ]_vars

C4_Witness ==
    \E p \in Requests : \E i \in DOMAIN sessions :
        /\ clock = At(0, 23, 11, 0)
        /\ ExpectedStart(i) = At(0, 23, 40, 0)
        /\ req[p].pc = "mark"
        /\ i \in Range(req[p].to_mark)
        /\ dispatched[i] = 1

\* C5: while the bot token or the chat id is absent the sweep does nothing: no
\* request ever holds the result of a candidate query, no sweep raises, no
\* reminder is dispatched and no session has reminder_sent set.
C5_Unconfigured ==
    ~Channel =>
        /\ \A p \in Requests : req[p] = IdleRequest
        /\ outcome # "raised"
        /\ outcome # "returned"
        /\ \A i \in SessionIds : dispatched[i] = 0
        /\ \A i \in DOMAIN sessions : sessions[i].reminder_sent = 0

C5_Witness ==
    /\ ~Channel
    /\ outcome = "skipped"
    /\ \E i \in DOMAIN sessions :
           sessions[i].completed = 0 /\ DueNow(i) /\ sessions[i].session_date = ClockDate

\* C6 as claimed: no step dispatches a reminder for a session whose completed
\* flag is set, or sets its reminder_sent.
C6_NeverCompleted ==
    [][ \A i \in DOMAIN sessions \cap DOMAIN sessions' :
            sessions[i].completed # 0
            => /\ sessions'[i].reminder_sent = sessions[i].reminder_sent
               /\ dispatched'[i] = dispatched[i] ]_vars

\* C6 as amended: a session whose completed flag is set when a sweep reads its
\* candidates is not selected by that sweep: the run dispatches nothing for it,
\* and a run sets reminder_sent only for what it selected.
C6_NotSelectedWhenCompleted ==
    [][ \A p \in Requests :
          /\ ReadStep(p) =>
               \A i \in DOMAIN sessions :
                   sessions[i].completed # 0
                   => i \notin Range(req'[p].to_mark) /\ dispatched'[i] = dispatched[i]
          /\ MarkStep(p) =>
               \A i \in DOMAIN sessions :
                   sessions'[i].reminder_sent # sessions[i].reminder_sent
                   => i \in Range(req[p].to_mark) ]_vars

C6_Witness ==
    \E p \in Requests : \E i, j \in DOMAIN sessions :
        /\ req[p].pc = "mark"
        /\ sessions[i].user_id = req[p].user_id
        /\ sessions[j].user_id = req[p].user_id
        /\ sessions[i].completed = 1
        /\ sessions[i].reminder_sent = 0
        /\ dispatched[i] = 0
        /\ DueNow(i) /\ DueNow(j)
        /\ i < j
        /\ i \notin Range(req[p].to_mark)
        /\ j \in Range(req[p].to_mark)

\* C7: a session whose time does not parse is never dispatched for and never
\* marked, and a sweep whose candidates hold such a session raises nothing and
\* selects and dispatches for every due candidate all the same.
C7_SkipsUnparsable ==
    [][ /\ \A i \in DOMAIN sessions' :
              sessions'[i].session_time = <<"2", "3", ":", "4", "0", ":", "0", "0">>
              => sessions'[i].reminder_sent = 0 /\ dispatched'[i] = 0
        /\ \A p \in Requests : ReadStep(p) =>
              /\ outcome' = outcome
              /\ \A i \in DOMAIN sessions :
                    CandidateNow(i, req'[p].user_id) /\ DueNow(i)
                    => /\ i \in Range(req'[p].to_mark)
                       /\ dispatched'[i] = dispatched[i] + 1 ]_vars

C7_Witness ==
    \E p \in Requests : \E b, j \in DOMAIN sessions :
        /\ req[p].pc = "mark"
        /\ b < j
        /\ sessions[b].session_time = <<"2", "3", ":", "4", "0", ":", "0", "0">>
        /\ sessions[b].user_id = req[p].user_id
        /\ sessions[j].user_id = req[p].user_id
        /\ sessions[b].session_date = ClockDate
        /\ sessions[b].completed = 0
        /\ j \in Range(req[p].to_mark)
        /\ dispatched[j] = 1

\* C8: a dispatch that fails changes nothing else.  A sweep attempts a dispatch
\* for every id it selects, the update that commits sets reminder_sent for
\* every selected session still in the store, failed dispatch or not, and no
\* sweep dispatches again for a session whose reminder_sent is set.
C8_MarkedDespiteFailure ==
    [][ /\ \A p \in Requests : ReadStep(p) =>
              \A i \in Range(req'[p].to_mark) : dispatched'[i] = dispatched[i] + 1
        /\ \A p \in Requests : Commits(p) =>
              \A i \in Range(req[p].to_mark) \cap DOMAIN sessions' :
                  sessions'[i].reminder_sent = 1
        /\ \A i \in DOMAIN sessions :
              (i \in failed /\ sessions[i].reminder_sent = 1)
              => dispatched'[i] <= dispatched[i] ]_vars

C8_Witness ==
    \E i, j \in DOMAIN sessions :
        /\ i < j
        /\ sessions[i].user_id = sessions[j].user_id
        /\ i \in failed /\ j \notin failed
        /\ dispatched[i] = 1 /\ dispatched[j] = 1
        /\ sessions[i].reminder_sent = 1 /\ sessions[j].reminder_sent = 1
        /\ \A p \in Requests : req[p].pc = "idle"

\* C9 as claimed: no sweep lets an exception escape to the dashboard request.
C9_NoEscape == outcome # "raised"

\* C10: a sweep for user u at the instant of the clock selects and dispatches
\* only for sessions owned by u whose date is the date of the clock, and its
\* update sets reminder_sent only for sessions it selected, owned by u.
C10_OwnToday ==
    [][ /\ \A p \in Requests : ReadStep(p) =>
              \A i \in Range(req'[p].to_mark) :
                  /\ sessions[i].user_id = req'[p].user_id
                  /\ sessions[i].session_date = ClockDate
        /\ \A i \in SessionIds :
              dispatched'[i] > dispatched[i]
              => \E p \in Requests : ReadStep(p) /\ i \in Range(req'[p].to_mark)
        /\ \A i \in DOMAIN sessions \cap DOMAIN sessions' :
              sessions'[i].reminder_sent # sessions[i].reminder_sent
              => \E p \in Requests :
                    /\ MarkStep(p)
                    /\ i \in Range(req[p].to_mark)
                    /\ sessions[i].user_id = req[p].user_id ]_vars

C10_Witness ==
    \E p \in Requests : \E i \in DOMAIN sessions :
        /\ clock = At(0, 23, 40, 1)
        /\ sessions[i].session_date = "2026-11-03"
        /\ ExpectedStart(i) = At(1, 0, 5, 0)
        /\ sessions[i].completed = 0
        /\ sessions[i].reminder_sent = 0
        /\ dispatched[i] = 0
        /\ req[p].pc = "mark"
        /\ req[p].user_id = sessions[i].user_id
        /\ req[p].to_mark = <<>>

\* C11 as claimed: every session in the store, whichever request created it
\* (the form, the JSON import or the CSV import), has a duration of at least
\* 10 minutes.
C11_DurationAtLeastTen ==
    \A i \in DOMAIN sessions : sessions[i].duration_min >= 10

\* C12: nothing keeps two dashboard requests of one user from reading the same
\* due session before either writes: both hold it in to_mark, each has
\* dispatched for it when it holds it (two requests holding it, two
\* dispatches), and the update of each sets the flag of every id it holds that
\* is still stored, whatever the flag was, in one step of its own.
C12_RaceReachable ==
    [][ /\ \A p, q \in Requests : \A i \in DOMAIN sessions :
              /\ p # q
              /\ req[p].pc = "mark" /\ i \in Range(req[p].to_mark)
              /\ req[q].pc = "mark" /\ i \in Range(req[q].to_mark)
              => /\ req[p].user_id = req[q].user_id
                 /\ dispatched[i] >= 2
        /\ \A p \in Requests : ReadStep(p) =>
              \A q \in Requests \ {p} : \A i \in Range(req[q].to_mark) :
                  /\ req[q].pc = "mark"
                  /\ i \in DOMAIN sessions
                  /\ CandidateNow(i, req'[p].user_id)
                  /\ DueNow(i)
                  => /\ i \in Range(req'[p].to_mark)
                     /\ dispatched'[i] = dispatched[i] + 1
        /\ \A p \in Requests : Commits(p) =>
              /\ \A i \in Range(req[p].to_mark) \cap DOMAIN sessions :
                    sessions'[i].reminder_sent = 1
              /\ \A q \in Requests \ {p} : req'[q] = req[q] ]_vars

\* Both requests have read and dispatched, the first has written, the second
\* still holds the session: one session, two dispatches.
C12_Witness ==
    \E p, q \in Requests : \E i \in DOMAIN sessions :
        /\ p # q
        /\ req[p].pc = "idle"
        /\ req[q].pc = "mark"
        /\ req[q].to_mark = <<i>>
        /\ i \in completedMarks
        /\ sessions[i].reminder_sent = 1
        /\ dispatched[i] = 2

\* C13 as claimed: in every reachable state the subject reference of every
\* session is either none or the id of a subject that is in the store, so no
\* session of any owner points at a subject that was deleted or never made.
C13_ValidReferences ==
    \A i \in DOMAIN sessions :
        sessions[i].subject_id = None \/ sessions[i].subject_id \in DOMAIN subjects

\* C14: in a run of the sweep the dispatches come before the one batched write.
\* With one dashboard request at a time: while a run stands between its loop
\* and its write, every session it holds that is still stored has been
\* dispatched for and is not yet marked; the loop itself writes no flag; a
\* flag is set only by the write of a run that holds the session, after a
\* dispatch for it; a write that fails leaves every session as it was; and a
\* later sweep that finds such a session still a candidate inside the window
\* dispatches for it again.
C14_DispatchPrecedesMark ==
    [][ /\ \A p \in Requests : req[p].pc = "mark" =>
              \A i \in Range(req[p].to_mark) \cap DOMAIN sessions :
                  sessions[i].reminder_sent = 0 /\ dispatched[i] >= 1
        /\ \A p \in Requests : ReadStep(p) =>
              /\ sessions' = sessions
              /\ \A i \in DOMAIN sessions :
                    /\ dispatched[i] >= 1
                    /\ CandidateNow(i, req'[p].user_id)
                    /\ DueNow(i)
                    => /\ i \in Range(req'[p].to_mark)
                       /\ dispatched'[i] = dispatched[i] + 1
        /\ \A i \in DOMAIN sessions \cap DOMAIN sessions' :
              sessions[i].reminder_sent = 0 /\ sessions'[i].reminder_sent = 1
              => /\ dispatched[i] >= 1
                 /\ \E p \in Requests : Commits(p) /\ i \in Range(req[p].to_mark)
        /\ \A p \in Requests : MarkStep(p) /\ outcome' = "raised" =>
              /\ sessions' = sessions
              /\ dispatched' = dispatched ]_vars

\* A first run dispatched and failed at its write, the session stayed
\* unmarked, and the next sweep has dispatched for it a second time.
C14_Witness ==
    \E i \in DOMAIN sessions :
        /\ clock = At(0, 23, 11, 0)
        /\ outcome = "raised"
        /\ req[1].pc = "mark"
        /\ req[1].to_mark = <<i>>
        /\ sessions[i].reminder_sent = 0
        /\ dispatched[i] = 2

====
